---- MODULE Spec2Model ----
(***************************************************************************)
(* A model of xml-to-excel.py: parse_excel_xml walks the worksheets, rows  *)
(* and cells of a SpreadsheetML document, rebuilds each table (sparse      *)
(* Index expansion, type coercion, empty-row filtering, padding), promotes *)
(* the first kept row to headers and writes one sheet per worksheet name.  *)
(*                                                                         *)
(* The document is read-only and is consumed strictly left to right, so    *)
(* the model draws each element (worksheet, row, cell) when the loop       *)
(* reaches it.  Strings are sequences of one-character strings, so that    *)
(* int(), float(), str(), the substring test and split() are computed.    *)
(***************************************************************************)
EXTENDS Integers, Sequences, FiniteSets, TLC

(***************************************************************************)
(* Bounds of the three families of documents that are explored.            *)
(***************************************************************************)
MaxWorksheets == 3
MaxTableRows == 3
MaxRowCells == 3

(***************************************************************************)
(* Text.                                                                   *)
(***************************************************************************)
DigitChars == <<"0", "1", "2", "3", "4", "5", "6", "7", "8", "9">>

IsDigit(c) == \E i \in 1..10 : DigitChars[i] = c

DigitVal(c) == (CHOOSE i \in 1..10 : DigitChars[i] = c) - 1

AllDigits(s) == \A i \in 1..Len(s) : IsDigit(s[i])

RECURSIVE NatOf(_)
NatOf(s) ==
    IF s = <<>> THEN 0
    ELSE NatOf(SubSeq(s, 1, Len(s) - 1)) * 10 + DigitVal(s[Len(s)])

RECURSIVE DigitsOf(_)
DigitsOf(n) ==
    IF n < 10 THEN <<DigitChars[n + 1]>>
    ELSE DigitsOf(n \div 10) \o <<DigitChars[(n % 10) + 1]>>

RECURSIVE Pow10(_)
Pow10(e) == IF e = 0 THEN 1 ELSE 10 * Pow10(e - 1)

RECURSIVE Zeros(_)
Zeros(n) == IF n <= 0 THEN <<>> ELSE <<"0">> \o Zeros(n - 1)

HasSign(s) == s # <<>> /\ s[1] \in {"+", "-"}

Unsigned(s) == IF HasSign(s) THEN Tail(s) ELSE s

\* Position of the first occurrence of character c in s, 0 when there is none.
FirstPos(s, c) ==
    IF \E i \in 1..Len(s) : s[i] = c
    THEN CHOOSE i \in 1..Len(s) : s[i] = c /\ \A j \in 1..(i - 1) : s[j] # c
    ELSE 0

\* Python's `sub in s` for strings.
Contains(s, sub) ==
    \E i \in 1..(Len(s) - Len(sub) + 1) : SubSeq(s, i, i + Len(sub) - 1) = sub

\* Python's s.split(c)[0]: the text before the first c, all of s when there is none.
SplitFirst(s, c) ==
    IF FirstPos(s, c) = 0 THEN s ELSE SubSeq(s, 1, FirstPos(s, c) - 1)

\* s ends with suffix.
EndsWith(s, suffix) ==
    Len(s) >= Len(suffix) /\ SubSeq(s, Len(s) - Len(suffix) + 1, Len(s)) = suffix

MidnightSuffix == <<"T", "0", "0", ":", "0", "0", ":", "0", "0">>

(***************************************************************************)
(* Cell values: a Python str or a Python float, as one record shape.  A    *)
(* float is sign, decimal mantissa m and number of fractional digits e     *)
(* (value m / 10^e), normalised so that equal floats are equal records.    *)
(***************************************************************************)
StrV(s) == [kind |-> "str", s |-> s, neg |-> FALSE, m |-> 0, e |-> 0]

RECURSIVE Normalise(_, _)
Normalise(m, e) ==
    IF e > 0 /\ m % 10 = 0 THEN Normalise(m \div 10, e - 1) ELSE <<m, e>>

FloatV(neg, m, e) ==
    [kind |-> "float", s |-> <<>>, neg |-> neg,
     m |-> Normalise(m, e)[1], e |-> Normalise(m, e)[2]]

EmptyStr == StrV(<<>>)

Zero == FloatV(FALSE, 0, 0)

\* Python truthiness of a str or a float.
Truthy(v) == IF v.kind = "str" THEN v.s # <<>> ELSE v.m # 0

\* int(text) for the decimal literals [+-]?[0-9]+ ; anything else is a ValueError.
IntValid(s) == Unsigned(s) # <<>> /\ AllDigits(Unsigned(s))

IntOf(s) == IF HasSign(s) /\ s[1] = "-" THEN 0 - NatOf(Unsigned(s)) ELSE NatOf(Unsigned(s))

\* float(text) for the decimal literals [+-]?(digits[.digits] | .digits);
\* anything else is a ValueError.
IntPart(s) ==
    IF FirstPos(Unsigned(s), ".") = 0 THEN Unsigned(s)
    ELSE SubSeq(Unsigned(s), 1, FirstPos(Unsigned(s), ".") - 1)

FracPart(s) ==
    IF FirstPos(Unsigned(s), ".") = 0 THEN <<>>
    ELSE SubSeq(Unsigned(s), FirstPos(Unsigned(s), ".") + 1, Len(Unsigned(s)))

FloatValid(s) ==
    /\ AllDigits(IntPart(s))
    /\ AllDigits(FracPart(s))
    /\ IntPart(s) \o FracPart(s) # <<>>

FloatOf(s) ==
    FloatV(HasSign(s) /\ s[1] = "-", NatOf(IntPart(s) \o FracPart(s)), Len(FracPart(s)))

\* str(v): a str is itself, a float prints as its shortest decimal with at
\* least one fractional digit.
FloatStr(v) ==
    (IF v.neg THEN <<"-">> ELSE <<>>)
        \o DigitsOf(v.m \div Pow10(v.e))
        \o <<".">>
        \o (IF v.e = 0 THEN <<"0">>
            ELSE Zeros(v.e - Len(DigitsOf(v.m % Pow10(v.e))))
                     \o DigitsOf(v.m % Pow10(v.e)))

Str(v) == IF v.kind = "str" THEN v.s ELSE FloatStr(v)

(***************************************************************************)
(* The document's elements.  An XML attribute (or an element's text) is    *)
(* absent or a string; a cell has an optional Index attribute and an       *)
(* optional Data element with an optional Type attribute and text.         *)
(***************************************************************************)
NoAttr == [present |-> FALSE, s |-> <<>>]

Attr(s) == [present |-> TRUE, s |-> s]

Cell(index, type, text) == [index |-> index, data |-> TRUE, type |-> type, text |-> text]

CellNoData(index) == [index |-> index, data |-> FALSE, type |-> NoAttr, text |-> NoAttr]

NoCell == CellNoData(NoAttr)

S_Sheet == <<"S", "h", "e", "e", "t">>

S_String == <<"S", "t", "r", "i", "n", "g">>

S_Number == <<"N", "u", "m", "b", "e", "r">>

S_DateTime == <<"D", "a", "t", "e", "T", "i", "m", "e">>

S_Boolean == <<"B", "o", "o", "l", "e", "a", "n">>

S_Column == <<"C", "o", "l", "u", "m", "n">>

S_Data == <<"D", "a", "t", "a">>

S_City == <<"C", "i", "t", "y">>

S_Midnight == <<"2", "0", "2", "4", "-", "0", "1", "-", "0", "5", "T", "0", "0", ":", "0", "0", ":", "0", "0">>

S_MidnightMillis == <<"2", "0", "2", "4", "-", "0", "1", "-", "0", "5", "T", "0", "0", ":", "0", "0", ":", "0", "0", ".", "0", "0", "0">>

S_Morning == <<"2", "0", "2", "4", "-", "0", "1", "-", "0", "5", "T", "0", "8", ":", "3", "0", ":", "0", "0">>

S_Date == <<"2", "0", "2", "4", "-", "0", "1", "-", "0", "5">>

(***************************************************************************)
(* The steps of parse_excel_xml on one cell, one row, one worksheet.       *)
(***************************************************************************)
Max(a, b) == IF a >= b THEN a ELSE b

\* `if cell_index:` : the attribute is there and is not the empty string.
HasIndex(c) == c.index.present /\ c.index.s # <<>>

\* int(cell_index) raises ValueError.
IndexRaises(c) == HasIndex(c) /\ ~IntValid(c.index.s)

\* Mutant of GapBefore: the Index is taken as 0-based.
GapBeforeZeroBased(c, k) ==
    IF HasIndex(c) /\ k < IntOf(c.index.s) THEN IntOf(c.index.s) - k ELSE 0

\* The number of "" appended by the while loop before the cell's value.
GapBefore(c, k) ==
    IF HasIndex(c) /\ k < IntOf(c.index.s) - 1 THEN (IntOf(c.index.s) - 1) - k ELSE 0

\* value = data.text if data is not None and data.text else ""
DataText(c) == IF c.data /\ c.text.present THEN c.text.s ELSE <<>>

\* data_type = data.get(Type, 'String') if data is not None else 'String'
DataType(c) == IF c.data /\ c.type.present THEN c.type.s ELSE S_String

\* Mutant of CoerceNumber: the ValueError of float() is not caught.
CoerceNumberUncaught(value) ==
    IF value = <<>> THEN [raises |-> FALSE, v |-> Zero]
    ELSE IF FloatValid(value) THEN [raises |-> FALSE, v |-> FloatOf(value)]
    ELSE [raises |-> TRUE, v |-> Zero]

\* The Number branch: float(value) if value else 0.0, ValueError caught.
CoerceNumber(value) ==
    IF value = <<>> THEN [raises |-> FALSE, v |-> Zero]
    ELSE IF FloatValid(value) THEN [raises |-> FALSE, v |-> FloatOf(value)]
    ELSE [raises |-> FALSE, v |-> Zero]

\* Mutant of CoerceDateTime: only a text that ends with the midnight suffix
\* is cut, and it loses that suffix.
CoerceDateTimeSuffix(value) ==
    IF value # <<>> /\ EndsWith(value, MidnightSuffix)
    THEN StrV(SubSeq(value, 1, Len(value) - Len(MidnightSuffix)))
    ELSE StrV(value)

\* The DateTime branch: 'T00:00:00' in value, value.split('T')[0].
CoerceDateTime(value) ==
    IF value # <<>> /\ Contains(value, MidnightSuffix)
    THEN StrV(SplitFirst(value, "T"))
    ELSE StrV(value)

\* The rendered value of a cell, and whether rendering it raises.
Coerce(type, value) ==
    IF type = S_Number THEN CoerceNumber(value)
    ELSE IF type = S_DateTime THEN [raises |-> FALSE, v |-> CoerceDateTime(value)]
    ELSE [raises |-> FALSE, v |-> StrV(value)]

Rendered(c) == Coerce(DataType(c), DataText(c))

\* The "" appended n times.
Placeholders(n) == [i \in 1..n |-> EmptyStr]

\* Mutant of RowKept: a row is kept when some value is not "".
RowKeptNonBlank(row) == \E i \in 1..Len(row) : row[i] # EmptyStr

\* any(x for x in row_data if x)
RowKept(row) == \E i \in 1..Len(row) : Truthy(row[i])

\* Mutant of PadRow: short rows are left as they are.
PadRowNone(row, width) == row

\* rows_data[i].extend([""] * (max_cols - len(rows_data[i])))
PadRow(row, width) ==
    row \o [i \in 1..(width - Len(row)) |-> EmptyStr]

PadAll(rows, width) == [i \in 1..Len(rows) |-> PadRow(rows[i], width)]

\* str(h) if h else f"Column{i+1}", i the 0-based position.
HeaderName(h, pos) == IF Truthy(h) THEN Str(h) ELSE S_Column \o DigitsOf(pos)

Headers(row) == [i \in 1..Len(row) |-> HeaderName(row[i], i)]

\* pd.DataFrame(rows_data[1:], columns=headers)
DataFrame(rows, columns) == [columns |-> columns, data |-> rows]

\* Mutant of QualifiesRows: one kept row is enough.
QualifiesRowsAny(rows) == rows # <<>>

\* if rows_data and len(rows_data) > 1
QualifiesRows(rows) == rows # <<>> /\ Len(rows) > 1

\* worksheet.get(Name, 'Sheet')
SheetName(name) == IF name.present THEN name.s ELSE S_Sheet

\* worksheets[sheet_name] = df on a dict, which keeps insertion order: a key
\* that is already there keeps its place and gets the new value.
DictHas(d, k) == \E i \in 1..Len(d) : d[i].name = k

DictPos(d, k) == CHOOSE i \in 1..Len(d) : d[i].name = k

\* Mutant of DictSet: an existing key is removed and added again at the end.
DictSetMoveToEnd(d, k, v) ==
    SelectSeq(d, LAMBDA item : item.name # k) \o <<[name |-> k, df |-> v]>>

DictSet(d, k, v) ==
    IF DictHas(d, k) THEN [d EXCEPT ![DictPos(d, k)].df = v]
    ELSE Append(d, [name |-> k, df |-> v])

(***************************************************************************)
(* The state of one run of parse_excel_xml.                                *)
(*   pc            where the run is: "start", "worksheets" (top of the     *)
(*                 worksheet loop), "rows" (top of the row loop), "cells"  *)
(*                 (top of the cell loop), "write" (inside the with        *)
(*                 block), "done" (returned)                               *)
(*   worksheets    the dict, as its items in iteration order               *)
(*   writer        "unopened", "open" or "closed"                          *)
(*   written       the sheets handed to the writer so far, in order        *)
(*   result        "None" until the function returns "True" or "False"     *)
(*   message       what was printed: "", "success", "nodata", "error"      *)
(*   raised        the statement whose exception reached the handler       *)
(*   nRows, nCells the Row elements of the table and the Cell elements of  *)
(*                 the row consumed so far                                 *)
(*   cell          the Cell element the cell loop handled last             *)
(*   name_attr     the Name attribute of the Worksheet element at hand     *)
(*   seen          per worksheet element met so far: its name and the      *)
(*                 DataFrame it stored, if it stored one                   *)
(***************************************************************************)
VARIABLES pc, worksheets, sheet_name, rows_data, max_cols, row_data,
          current_index, writer, written, result, message, raised,
          nRows, nCells, cell, seen, name_attr

vars == <<pc, worksheets, sheet_name, rows_data, max_cols, row_data,
          current_index, writer, written, result, message, raised,
          nRows, nCells, cell, seen, name_attr>>

tableVars == <<rows_data, max_cols, nRows>>

rowVars == <<row_data, current_index, nCells, cell>>

outVars == <<writer, written, result, message, raised>>

NoFrame == DataFrame(<<>>, <<>>)

Init ==
    /\ pc = "start"
    /\ worksheets = <<>>
    /\ sheet_name = <<>>
    /\ rows_data = <<>>
    /\ max_cols = 0
    /\ row_data = <<>>
    /\ current_index = 0
    /\ writer = "unopened"
    /\ written = <<>>
    /\ result = "None"
    /\ message = ""
    /\ raised = ""
    /\ nRows = 0
    /\ nCells = 0
    /\ cell = NoCell
    /\ seen = <<>>
    /\ name_attr = NoAttr

\* except Exception as e: print the error, return False.
Handler(stmt) ==
    /\ pc' = "done"
    /\ result' = "False"
    /\ message' = "error"
    /\ raised' = stmt

\* tree = ET.parse(xml_file); root = tree.getroot()
ParseDocument(ok) ==
    /\ pc = "start"
    /\ IF ok
       THEN pc' = "worksheets" /\ UNCHANGED <<result, message, raised>>
       ELSE Handler("parse")
    /\ UNCHANGED <<worksheets, sheet_name, tableVars, rowVars, writer, written, seen, name_attr>>

\* One iteration of the worksheet loop up to the row loop: the name, the
\* table lookup and `continue`, the reset of rows_data and max_cols.
BeginWorksheet(name, hasTable, maxWorksheets) ==
    /\ pc = "worksheets"
    /\ Len(seen) < maxWorksheets
    /\ sheet_name' = SheetName(name)
    /\ IF hasTable
       THEN /\ rows_data' = <<>>
            /\ max_cols' = 0
            /\ nRows' = 0
            /\ pc' = "rows"
            /\ seen' = seen
       ELSE /\ seen' = Append(seen, [name |-> SheetName(name), stored |-> FALSE, df |-> NoFrame])
            /\ UNCHANGED <<pc, tableVars>>
    /\ name_attr' = name
    /\ UNCHANGED <<worksheets, rowVars, outVars>>

\* One iteration of the row loop up to the cell loop.
BeginRow(maxRows) ==
    /\ pc = "rows"
    /\ nRows < maxRows
    /\ nRows' = nRows + 1
    /\ row_data' = <<>>
    /\ current_index' = 0
    /\ nCells' = 0
    /\ cell' = NoCell
    /\ pc' = "cells"
    /\ UNCHANGED <<worksheets, sheet_name, rows_data, max_cols, outVars, seen, name_attr>>

\* One iteration of the cell loop.
ProcessCell(c, maxCells) ==
    /\ pc = "cells"
    /\ nCells < maxCells
    /\ nCells' = nCells + 1
    /\ cell' = c
    /\ IF IndexRaises(c)
       THEN /\ Handler("int")
            /\ UNCHANGED <<row_data, current_index, writer, written>>
       ELSE IF Rendered(c).raises
       THEN /\ Handler("float")
            /\ row_data' = row_data \o Placeholders(GapBefore(c, current_index))
            /\ current_index' = current_index + GapBefore(c, current_index)
            /\ UNCHANGED <<writer, written>>
       ELSE /\ row_data' = row_data \o Placeholders(GapBefore(c, current_index))
                                    \o <<Rendered(c).v>>
            /\ current_index' = current_index + GapBefore(c, current_index) + 1
            /\ UNCHANGED <<pc, outVars>>
    /\ UNCHANGED <<worksheets, sheet_name, tableVars, seen, name_attr>>

\* The end of the cell loop: only non-empty rows are added.
EndRow ==
    /\ pc = "cells"
    /\ pc' = "rows"
    /\ IF RowKept(row_data)
       THEN /\ rows_data' = Append(rows_data, row_data)
            /\ max_cols' = Max(max_cols, Len(row_data))
       ELSE UNCHANGED <<rows_data, max_cols>>
    /\ UNCHANGED <<worksheets, sheet_name, nRows, rowVars, outVars, seen, name_attr>>

\* The end of the row loop: padding, headers, DataFrame, the dict entry.
EndWorksheet ==
    /\ pc = "rows"
    /\ pc' = "worksheets"
    /\ rows_data' = PadAll(rows_data, max_cols)
    /\ IF QualifiesRows(rows_data)
       THEN /\ worksheets' = DictSet(worksheets, sheet_name,
                                     DataFrame(Tail(rows_data'), Headers(rows_data'[1])))
            /\ seen' = Append(seen, [name |-> sheet_name, stored |-> TRUE,
                                     df |-> DataFrame(Tail(rows_data'), Headers(rows_data'[1]))])
       ELSE /\ worksheets' = worksheets
            /\ seen' = Append(seen, [name |-> sheet_name, stored |-> FALSE, df |-> NoFrame])
    /\ UNCHANGED <<sheet_name, max_cols, nRows, rowVars, outVars, name_attr>>

\* Mutant of FinishWorksheets: the writer is opened before `if worksheets:`,
\* so that a run without data opens and closes it.
FinishWorksheetsOpenFirst(ok) ==
    /\ pc = "worksheets"
    /\ IF ~ok
       THEN Handler("open") /\ writer' = writer
       ELSE IF worksheets # <<>>
       THEN pc' = "write" /\ writer' = "open" /\ UNCHANGED <<result, message, raised>>
       ELSE /\ pc' = "done"
            /\ result' = "False"
            /\ message' = "nodata"
            /\ writer' = "closed"
            /\ raised' = raised
    /\ UNCHANGED <<worksheets, sheet_name, tableVars, rowVars, written, seen, name_attr>>

\* The end of the worksheet loop: `if worksheets:` opens the writer, else
\* "No data found" and return False.
FinishWorksheets(ok) ==
    /\ pc = "worksheets"
    /\ IF worksheets # <<>>
       THEN IF ok
            THEN pc' = "write" /\ writer' = "open" /\ UNCHANGED <<result, message, raised>>
            ELSE Handler("open") /\ writer' = writer
       ELSE /\ pc' = "done"
            /\ result' = "False"
            /\ message' = "nodata"
            /\ UNCHANGED <<writer, raised>>
    /\ UNCHANGED <<worksheets, sheet_name, tableVars, rowVars, written, seen, name_attr>>

\* One iteration of the loop over worksheets.items(): df.to_excel.
WriteSheet(ok) ==
    /\ pc = "write"
    /\ Len(written) < Len(worksheets)
    /\ IF ok
       THEN /\ written' = Append(written, worksheets[Len(written) + 1])
            /\ UNCHANGED <<pc, writer, result, message, raised>>
       ELSE /\ Handler("write")
            /\ writer' = "closed"
            /\ written' = written
    /\ UNCHANGED <<worksheets, sheet_name, tableVars, rowVars, seen, name_attr>>

\* The end of the with block (the writer saves and closes), the success
\* message and return True.
CloseWriter(ok) ==
    /\ pc = "write"
    /\ Len(written) = Len(worksheets)
    /\ writer' = "closed"
    /\ IF ok
       THEN pc' = "done" /\ result' = "True" /\ message' = "success" /\ raised' = raised
       ELSE Handler("close")
    /\ UNCHANGED <<worksheets, sheet_name, tableVars, rowVars, written, seen, name_attr>>

(***************************************************************************)
(* The documents explored.  Three families, each bounded along the         *)
(* dimension its properties are about:                                     *)
(*   books   up to MaxWorksheets worksheets, each with up to two rows of   *)
(*           one cell (Spec);                                              *)
(*   tables  one worksheet with up to MaxTableRows rows of up to two       *)
(*           cells (SpecTable);                                            *)
(*   rows    one worksheet with one row of up to MaxRowCells cells, up to  *)
(*           the end of that row (SpecRow).                                *)
(* The texts are confined to those on which int() and float() are the      *)
(* decimal literals above (no exponent, inf, nan, blanks or underscores).  *)
(***************************************************************************)
Names == {NoAttr, Attr(S_Sheet), Attr(S_Data)}

BookCells ==
    { Cell(NoAttr, NoAttr, Attr(S_City)),
      Cell(NoAttr, Attr(S_Number), Attr(<<"7">>)),
      Cell(Attr(<<"x">>), NoAttr, Attr(S_City)) }

TableIndexes == {NoAttr, Attr(<<"2">>)}

TableCells ==
    { Cell(i, d[1], d[2]) :
        i \in TableIndexes,
        d \in { <<Attr(S_String), NoAttr>>,
                <<Attr(S_String), Attr(S_City)>>,
                <<Attr(S_Number), Attr(<<"0">>)>> } }

RowIndexes == {NoAttr, Attr(<<>>), Attr(<<"1">>), Attr(<<"3">>), Attr(<<"x">>)}

RowData ==
    { <<Attr(S_String), Attr(S_City)>>,
      <<NoAttr, Attr(S_City)>>,
      <<NoAttr, NoAttr>>,
      <<Attr(S_Boolean), Attr(S_City)>>,
      <<Attr(S_Number), NoAttr>>,
      <<Attr(S_Number), Attr(<<>>)>>,
      <<Attr(S_Number), Attr(<<"0">>)>>,
      <<Attr(S_Number), Attr(<<"3", "0">>)>>,
      <<Attr(S_Number), Attr(<<"-", "3", ".", "5">>)>>,
      <<Attr(S_Number), Attr(S_City)>>,
      <<Attr(S_Number), Attr(<<"1", ".", "2", ".", "3">>)>>,
      <<Attr(S_DateTime), NoAttr>>,
      <<Attr(S_DateTime), Attr(S_Midnight)>>,
      <<Attr(S_DateTime), Attr(S_MidnightMillis)>>,
      <<Attr(S_DateTime), Attr(S_Morning)>>,
      <<Attr(S_DateTime), Attr(<<"T">> \o MidnightSuffix)>> }

RowCells ==
    { Cell(i, d[1], d[2]) : i \in RowIndexes, d \in RowData }
        \cup { CellNoData(i) : i \in RowIndexes }

Next ==
    \/ \E ok \in BOOLEAN : ParseDocument(ok)
    \/ \E name \in Names, hasTable \in BOOLEAN : BeginWorksheet(name, hasTable, MaxWorksheets)
    \/ BeginRow(2)
    \/ \E c \in BookCells : ProcessCell(c, 1)
    \/ EndRow
    \/ EndWorksheet
    \/ \E ok \in BOOLEAN : FinishWorksheets(ok)
    \/ \E ok \in BOOLEAN : WriteSheet(ok)
    \/ \E ok \in BOOLEAN : CloseWriter(ok)

Spec == Init /\ [][Next]_vars

NextTable ==
    \/ \E ok \in BOOLEAN : ParseDocument(ok)
    \/ \E name \in Names, hasTable \in BOOLEAN : BeginWorksheet(name, hasTable, 1)
    \/ BeginRow(MaxTableRows)
    \/ \E c \in TableCells : ProcessCell(c, 2)
    \/ EndRow
    \/ EndWorksheet
    \/ \E ok \in BOOLEAN : FinishWorksheets(ok)
    \/ \E ok \in BOOLEAN : WriteSheet(ok)
    \/ \E ok \in BOOLEAN : CloseWriter(ok)

SpecTable == Init /\ [][NextTable]_vars

NextRow ==
    \/ \E ok \in BOOLEAN : ParseDocument(ok)
    \/ \E name \in Names, hasTable \in BOOLEAN : BeginWorksheet(name, hasTable, 1)
    \/ BeginRow(1)
    \/ \E c \in RowCells : ProcessCell(c, MaxRowCells)
    \/ EndRow

SpecRow == Init /\ [][NextRow]_vars

(***************************************************************************)
(* Properties.                                                             *)
(***************************************************************************)
Last(q) == q[Len(q)]

IsBlank(v) == v.kind = "str" /\ v.s = <<>>

NonEmptyOrNonZero(v) ==
    \/ v.kind = "str" /\ v.s # <<>>
    \/ v.kind = "float" /\ v.m # 0

Rectangular(df) == \A r \in 1..Len(df.data) : Len(df.data[r]) = Len(df.columns)

LongestRow(rows) ==
    IF rows = <<>> THEN 0
    ELSE CHOOSE n \in {Len(rows[i]) : i \in 1..Len(rows)} :
            \A i \in 1..Len(rows) : Len(rows[i]) <= n

\* C1: every sheet in the worksheet mapping is rectangular: each data row has
\* as many columns as the header list, and that count is the maximum row
\* length among the rows kept for the worksheet (max_cols, which while the
\* rows are collected is the length of the longest kept row).
C1_Rectangular ==
    /\ \A i \in 1..Len(worksheets) : Rectangular(worksheets[i].df)
    /\ pc \in {"rows", "cells"} => max_cols = LongestRow(rows_data)
    /\ (pc = "worksheets" /\ seen # <<>> /\ Last(seen).stored) =>
          /\ Len(Last(seen).df.columns) = max_cols
          /\ \E i \in 1..Len(worksheets) : worksheets[i].df = Last(seen).df

\* A sheet was stored whose data row is shorter in the source than its header
\* row: the data row ends with the padding.
C1_Witness ==
    /\ pc = "worksheets"
    /\ Len(worksheets) = 1
    /\ Len(worksheets[1].df.columns) = 3
    /\ worksheets[1].df.columns[3] = S_City
    /\ worksheets[1].df.data[1] = <<StrV(S_City), EmptyStr, EmptyStr>>

\* C2: a cell with explicit position P met at running count K gets exactly
\* P-1-K placeholders before its value when K < P-1 and none otherwise (or
\* without Index); its value comes after everything already in the row, and
\* the running count ends one past the value.
C2_SparseExpansion ==
    [][(pc = "cells" /\ pc' = "cells") =>
        LET K == current_index
            declared == cell'.index.present /\ cell'.index.s # <<>>
            P == IntOf(cell'.index.s)
            gap == IF declared /\ K < P - 1 THEN P - 1 - K ELSE 0
        IN  /\ K = Len(row_data)
            /\ Len(row_data') = K + gap + 1
            /\ SubSeq(row_data', 1, K) = row_data
            /\ \A i \in (K + 1)..(K + gap) : row_data'[i] = EmptyStr
            /\ row_data'[K + gap + 1] = Rendered(cell').v
            /\ current_index' = K + gap + 1]_vars

\* The second cell of a row declares position 3 at running count 1: one
\* placeholder stands between the first cell's value and its own.
C2_Witness ==
    /\ pc = "cells"
    /\ nCells = 2
    /\ cell.index = Attr(<<"3">>)
    /\ Len(row_data) = 3
    /\ row_data[1] = StrV(S_City)
    /\ row_data[2] = EmptyStr
    /\ row_data[3] = FloatV(FALSE, 30, 0)

BadNumberTexts == {NoAttr, Attr(<<>>), Attr(S_City), Attr(<<"1", ".", "2", ".", "3">>)}

IsBadNumberCell(c) ==
    c.data /\ c.type = Attr(S_Number) /\ c.text \in BadNumberTexts

\* C3: a Number cell whose text is absent, empty or not a number is rendered
\* as 0.0, and the run does not end in the handler because of its text.
C3_NumberFallback ==
    (nCells > 0 /\ IsBadNumberCell(cell)) =>
        /\ pc \in {"cells", "rows"} => Last(row_data) = Zero
        /\ pc = "done" => raised = "int" /\ IndexRaises(cell)

\* A Number cell with the text 1.2.3 was rendered as 0.0.
C3_Witness ==
    /\ pc = "cells"
    /\ nCells > 0
    /\ cell.type = Attr(S_Number)
    /\ cell.text = Attr(<<"1", ".", "2", ".", "3">>)
    /\ Last(row_data) = Zero

IsDateTimeCell(c) == c.data /\ c.type = Attr(S_DateTime) /\ c.text.present

\* C4 as stated, for the texts with at most one T: a DateTime text that ends
\* with T00:00:00 loses that suffix, every other DateTime text is passed
\* through unchanged.
C4_Original ==
    (/\ pc = "cells" /\ nCells > 0 /\ IsDateTimeCell(cell)
     /\ Cardinality({i \in 1..Len(cell.text.s) : cell.text.s[i] = "T"}) <= 1) =>
        Last(row_data) =
            IF EndsWith(cell.text.s, MidnightSuffix)
            THEN StrV(SubSeq(cell.text.s, 1, Len(cell.text.s) - Len(MidnightSuffix)))
            ELSE StrV(cell.text.s)

\* C4 as amended: a DateTime text that contains T00:00:00 anywhere is cut
\* before its first T; every other DateTime text is passed through unchanged.
C4_DateTime ==
    (pc = "cells" /\ nCells > 0 /\ IsDateTimeCell(cell)) =>
        LET t == cell.text.s
            hasMidnight == \E i \in 1..Len(t) :
                               /\ i + 8 <= Len(t)
                               /\ \A j \in 0..8 : t[i + j] = MidnightSuffix[j + 1]
        IN  IF hasMidnight
            THEN \E k \in 1..Len(t) :
                    /\ t[k] = "T"
                    /\ \A j \in 1..(k - 1) : t[j] # "T"
                    /\ Last(row_data) = StrV(SubSeq(t, 1, k - 1))
            ELSE Last(row_data) = StrV(t)

\* A DateTime cell with the text 2024-01-05T00:00:00.000, which does not end
\* with the midnight suffix, was rendered as 2024-01-05.
C4_Witness ==
    /\ pc = "cells"
    /\ nCells > 0
    /\ IsDateTimeCell(cell)
    /\ cell.text.s = S_MidnightMillis
    /\ Last(row_data) = StrV(S_Date)

\* C5: at the end of a row, the row joins the kept rows (at the end, so in
\* source order) and counts for the width if and only if one of its values
\* is a non-empty string or a non-zero number; otherwise neither the kept
\* rows nor the width change.
C5_EmptyRowFiltering ==
    [][(pc = "cells" /\ pc' = "rows") =>
        IF \E i \in 1..Len(row_data) : NonEmptyOrNonZero(row_data[i])
        THEN /\ rows_data' = rows_data \o <<row_data>>
             /\ max_cols' = IF Len(row_data) > max_cols THEN Len(row_data) ELSE max_cols
        ELSE /\ rows_data' = rows_data
             /\ max_cols' = max_cols]_vars

\* After a kept row, a wider row holding only "" and 0.0 was dropped and the
\* width stayed that of the kept row.
C5_Witness ==
    /\ pc = "rows"
    /\ nRows = 2
    /\ Len(rows_data) = 1
    /\ max_cols = 1
    /\ Len(row_data) = 3
    /\ row_data[3] = Zero

\* C6: a worksheet without a table, or with fewer than 2 kept rows, leaves
\* the worksheet mapping as it is; one with at least 2 kept rows puts a sheet
\* under its name whose data rows are the kept rows after the first, in
\* order (each padded to the width).
C6_Qualification ==
    [][/\ (pc = "worksheets" /\ pc' = "worksheets") => worksheets' = worksheets
       /\ (pc = "rows" /\ pc' = "worksheets") =>
            IF Len(rows_data) >= 2
            THEN \E i \in 1..Len(worksheets') :
                    /\ worksheets'[i].name = sheet_name
                    /\ Len(worksheets'[i].df.data) = Len(rows_data) - 1
                    /\ \A r \in 1..(Len(rows_data) - 1) :
                         /\ SubSeq(worksheets'[i].df.data[r], 1, Len(rows_data[r + 1]))
                                = rows_data[r + 1]
                         /\ \A k \in (Len(rows_data[r + 1]) + 1)..Len(worksheets'[i].df.data[r]) :
                                worksheets'[i].df.data[r][k] = EmptyStr
            ELSE worksheets' = worksheets]_vars

\* A table of three rows, one of them dropped, gave a sheet with one data row.
C6_Witness ==
    /\ pc = "worksheets"
    /\ nRows = 3
    /\ Len(rows_data) = 2
    /\ Len(worksheets) = 1
    /\ Len(worksheets[1].df.data) = 1

\* C7: the header at position i is "Column" followed by i when the first kept
\* row's value there is the empty string, and the string form of that value
\* otherwise.
C7_Headers ==
    (pc = "worksheets" /\ seen # <<>> /\ Last(seen).stored) =>
        \A i \in 1..Len(rows_data[1]) :
            Last(seen).df.columns[i] =
                IF IsBlank(rows_data[1][i]) THEN S_Column \o DigitsOf(i)
                ELSE Str(rows_data[1][i])

\* C8: the run ends in exactly one of three outcomes.  True with the success
\* message only when the mapping is not empty and every sheet of it was
\* written; "no data" with False and an unopened writer when the mapping is
\* empty; False with the error message whenever an exception was raised.
C8_Outcomes ==
    /\ pc # "done" => result = "None" /\ message = "" /\ raised = ""
    /\ worksheets = <<>> => writer = "unopened" /\ written = <<>>
    /\ pc = "done" =>
        /\ result \in {"True", "False"}
        /\ message \in {"success", "nodata", "error"}
        /\ result = "True" <=> message = "success"
        /\ message = "success" =>
              worksheets # <<>> /\ written = worksheets /\ raised = "" /\ writer = "closed"
        /\ message = "nodata" =>
              worksheets = <<>> /\ raised = "" /\ writer = "unopened"
        /\ message = "error" <=> raised # ""

\* Writing failed after one sheet had been written: the run ended in the
\* handler with False.
C8_Witness ==
    /\ pc = "done"
    /\ raised = "write"
    /\ Len(written) = 1
    /\ Len(worksheets) = 2
    /\ result = "False"

\* C9: no exception comes out of building the rows.
C9_NoErrorPath == raised \notin {"int", "float"}

SameName(i, j) == seen[i].name = seen[j].name

EntriesNamed(n) == {i \in 1..Len(worksheets) : worksheets[i].name = n}

\* The worksheet (its position in the document) whose content the sheet
\* named n holds: the last one of that name that stored a DataFrame.
LastStored(n) ==
    CHOOSE i \in 1..Len(seen) :
        /\ seen[i].name = n /\ seen[i].stored
        /\ \A j \in (i + 1)..Len(seen) : ~(seen[j].name = n /\ seen[j].stored)

FirstStored(n) ==
    CHOOSE i \in 1..Len(seen) :
        /\ seen[i].name = n /\ seen[i].stored
        /\ \A j \in 1..(i - 1) : ~(seen[j].name = n /\ seen[j].stored)

StoredNames == {seen[i].name : i \in {j \in 1..Len(seen) : seen[j].stored}}

DefaultName ==
    (pc \in {"rows", "cells"} \/ seen # <<>>) =>
        sheet_name = IF name_attr.present THEN name_attr.s ELSE S_Sheet

\* C10 as stated: whenever two worksheets have the same name (and one of
\* them qualified) the mapping holds exactly one sheet under it, with the
\* content of the later (the last) worksheet of that name, and
\* the sheets are written in the order in which the worksheets whose content
\* they hold were met.
C10_Original ==
    /\ DefaultName
    /\ \A i, j \in 1..Len(seen) :
          (/\ i < j /\ SameName(i, j) /\ \A k \in (j + 1)..Len(seen) : ~SameName(j, k)
           /\ seen[i].stored \/ seen[j].stored) =>
              /\ Cardinality(EntriesNamed(seen[j].name)) = 1
              /\ \A e \in EntriesNamed(seen[j].name) : worksheets[e].df = seen[j].df
    /\ \A a, b \in 1..Len(written) :
          a < b => LastStored(written[a].name) < LastStored(written[b].name)

\* C10 as amended: the mapping holds one sheet for every name under which
\* some worksheet qualified and no other; its content is that of the last
\* qualifying worksheet of that name; the sheets stand, and are written, in
\* the order in which their names first qualified.
C10_LastWins ==
    /\ DefaultName
    /\ {worksheets[e].name : e \in 1..Len(worksheets)} = StoredNames
    /\ \A n \in StoredNames :
          /\ Cardinality(EntriesNamed(n)) = 1
          /\ \A e \in EntriesNamed(n) : worksheets[e].df = seen[LastStored(n)].df
    /\ \A a, b \in 1..Len(worksheets) :
          a < b => FirstStored(worksheets[a].name) < FirstStored(worksheets[b].name)
    /\ written = SubSeq(worksheets, 1, Len(written))

\* Three worksheets qualified, the first and the third under the same name
\* with different content; both sheets were written.
C10_Witness ==
    /\ pc = "done"
    /\ message = "success"
    /\ Len(seen) = 3
    /\ seen[1].stored /\ seen[2].stored /\ seen[3].stored
    /\ seen[1].name = seen[3].name
    /\ seen[1].name # seen[2].name
    /\ seen[1].df # seen[3].df
    /\ Len(written) = 2

====
